---- MODULE Spec2Model ----
(***************************************************************************)
(* promptext-notes: the AI generation pipeline.                            *)
(*   - retry engine            internal/ai/retry.go                        *)
(*   - provider adapters       internal/ai/openai.go, anthropic, cerebras, *)
(*                             openrouter, ollama                          *)
(*   - provider factory        internal/ai/provider.go                     *)
(*   - configuration resolver  internal/config/config.go                   *)
(*   - two-stage workflow      internal/workflow/workflow.go, polish.go    *)
(*   - commit categories       internal/analyzer                           *)
(*                                                                         *)
(* Text is a sequence of one-character strings.  "H" stands for one of the *)
(* four header prefixes stripAIHeaders looks for, "x" for any other        *)
(* printable character.  Temperatures are tenths (3 is 0.3).  int and      *)
(* time.Duration are two's-complement machine words; the word is scaled    *)
(* from 64 to IntBits bits and keeps its wrap-around.                      *)
(***************************************************************************)
EXTENDS Integers, Sequences, FiniteSets, TLC

VARIABLES
    cfg,        \* *config.Config handed to the operation
    env,        \* names of the environment variables that hold a non-empty value
    opts,       \* workflow.GenerateOptions (UseAI, AIPromptOnly) and whether a provider was passed
    ctxDone,    \* the caller's context is cancelled / past its deadline
    pc,         \* position of the single goroutine
    stage,      \* "discovery" or "polish": which Generate is running
    adapter,    \* the Provider of the running stage (NoAdapter when none)
    req,        \* the ai.Request of the running stage
    attempt,    \* RetryWithBackoff: loop variable
    lastErr,    \* RetryWithBackoff: lastErr
    woke,       \* RetryWithBackoff: which case woke the select ("none" while blocked)
    delay,      \* RetryWithBackoff: the delay of the wait entered last
    calls,      \* invocations of fn by the running RetryWithBackoff
    waits,      \* selects entered by the running RetryWithBackoff
    rerr,       \* error returned by RetryWithBackoff / Generate
    resp,       \* *ai.Response of the running Generate
    https,      \* HTTP requests sent, per stage
    gens,       \* Generate invocations, per stage
    retries,    \* RetryWithBackoff invocations, per stage
    draft,      \* text handed to PolishChangelog
    result,     \* what the entry point returned: [text, err]
    cancelAt,   \* where the goroutine stood when the context was cancelled
    okAt,       \* number of the first invocation of fn that returned nil (0: none yet)
    rcfg,       \* the cfg argument of the running RetryWithBackoff
    out,        \* the last call of a resolver or factory: [op, val, err]
                \* and the outcome of the key lookup it made: key
    commits     \* the commit messages handed to analyzer.CategorizeCommits

cfgVars == <<cfg, env, opts, commits>>

stageVars == <<stage, adapter, req, draft>>

loopVars == <<attempt, lastErr, woke, delay, calls, waits, okAt, rcfg>>

countVars == <<https, gens, retries>>

vars == <<cfgVars, stageVars, loopVars, countVars, ctxDone, pc, rerr, resp,
          result, cancelAt, out>>

(***************************************************************************)
(* Bounds.                                                                 *)
(***************************************************************************)
MaxAttempts == 3

MaxDelay == 2

\* width of int and time.Duration (int64), scaled
IntBits == 8

(***************************************************************************)
(* Errors.  An error is its chain of wrappers, outermost first:            *)
(*   wrap  - prefix added by the workflow / factory ("" when none)         *)
(*   kind  - the error of the retry engine, adapter or factory             *)
(*   n     - the attempt count the message names (0 when it names none)    *)
(*   at    - the invocation of fn whose error is wrapped (0 when none)     *)
(*   cause - message of the innermost error ("" when none)                 *)
(***************************************************************************)
Err(wrap, kind, n, at, cause) ==
    [wrap |-> wrap, kind |-> kind, n |-> n, at |-> at, cause |-> cause]

Nil == Err("", "nil", 0, 0, "")

\* fmt.Errorf("<prefix>: %w", e) of the workflow layer
Wrap(prefix, e) == [e EXCEPT !.wrap = prefix]



NoReq == [prompt |-> <<>>, model |-> "", maxTokens |-> 0, temperature |-> 0]

NoResp == [content |-> <<>>, provider |-> "", model |-> ""]

Stages == {"discovery", "polish"}

Zero == [s \in Stages |-> 0]

(***************************************************************************)
(* internal/config/config.go                                               *)
(***************************************************************************)
Default ==
    [ provider |-> "anthropic", model |-> "claude-haiku-4-5",
      apiKeyEnv |-> "ANTHROPIC_API_KEY", maxTokens |-> 8000, temperature |-> 3,
      attempts |-> 3, backoff |-> "exponential", initialDelay |-> 2,
      polishEnabled |-> FALSE, polishModel |-> "", polishProvider |-> "",
      polishAPIKeyEnv |-> "", polishPrompt |-> <<>>,
      polishMaxTokens |-> 4000, polishTemperature |-> 3 ]

(***************************************************************************)
(* Provider identifiers.  "unknown" stands for every identifier outside    *)
(* the supported six.                                                      *)
(***************************************************************************)
Supported == {"anthropic", "openai", "cerebras", "groq", "openrouter", "ollama"}

Identifiers == Supported \cup {"unknown"}

\* GetDefaultAPIKeyEnv: the static per-provider variable name
GetDefaultAPIKeyEnv(provider) ==
    CASE provider = "anthropic"  -> "ANTHROPIC_API_KEY"
      [] provider = "openai"     -> "OPENAI_API_KEY"
      [] provider = "cerebras"   -> "CEREBRAS_API_KEY"
      [] provider = "groq"       -> "GROQ_API_KEY"
      [] provider = "openrouter" -> "OPENROUTER_API_KEY"
      [] provider = "ollama"     -> ""
      [] OTHER                   -> ""

\* os.Getenv(name): the value of a variable that is set is a key that names it
Getenv(e, name) == IF name \in e THEN <<name>> ELSE <<>>

KeyResult(key, err) == [key |-> key, err |-> err]

\* Config.GetAPIKey
GetAPIKey_Lenient(c, e) == KeyResult(Getenv(e, c.apiKeyEnv), Nil)

GetAPIKey(c, e) ==
    IF c.apiKeyEnv = "" THEN KeyResult(<<>>, Nil)
    ELSE IF Getenv(e, c.apiKeyEnv) = <<>>
         THEN KeyResult(<<>>, Err("", "API key not found in environment variable",
                                  0, 0, c.apiKeyEnv))
         ELSE KeyResult(Getenv(e, c.apiKeyEnv), Nil)

\* Config.GetPolishProvider
GetPolishProvider(c) ==
    IF c.polishProvider # "" THEN c.polishProvider ELSE c.provider

\* Config.GetPolishModel
GetPolishModel_NoFallback(c) == c.polishModel

GetPolishModel(c) ==
    IF c.polishModel # "" THEN c.polishModel ELSE c.model

\* Config.GetPolishAPIKeyEnv
GetPolishAPIKeyEnv_Inherit(c) ==
    IF c.polishAPIKeyEnv # "" THEN c.polishAPIKeyEnv ELSE c.apiKeyEnv

GetPolishAPIKeyEnv(c) ==
    IF c.polishAPIKeyEnv # "" THEN c.polishAPIKeyEnv
    ELSE GetDefaultAPIKeyEnv(GetPolishProvider(c))

\* Config.GetPolishAPIKey
GetPolishAPIKey_OwnVariable(c, e) ==
    IF GetPolishAPIKeyEnv(c) = "" THEN KeyResult(<<>>, Nil)
    ELSE IF Getenv(e, GetPolishAPIKeyEnv(c)) = <<>>
         THEN KeyResult(<<>>, Err("", "polish API key not found in environment variable",
                                  0, 0, GetPolishAPIKeyEnv(c)))
         ELSE KeyResult(Getenv(e, GetPolishAPIKeyEnv(c)), Nil)

GetPolishAPIKey(c, e) ==
    IF GetPolishProvider(c) = c.provider THEN GetAPIKey(c, e)
    ELSE IF GetPolishAPIKeyEnv(c) = "" THEN KeyResult(<<>>, Nil)
    ELSE IF Getenv(e, GetPolishAPIKeyEnv(c)) = <<>>
         THEN KeyResult(<<>>, Err("", "polish API key not found in environment variable",
                                  0, 0, GetPolishAPIKeyEnv(c)))
         ELSE KeyResult(Getenv(e, GetPolishAPIKeyEnv(c)), Nil)

\* validBackoffs
ValidBackoffs == {"exponential", "linear", "constant"}

\* Config.Validate
Validate_NoPolishCheck(c) ==
    IF c.provider \notin Supported THEN Err("", "invalid AI provider", 0, 0, c.provider)
    ELSE IF c.maxTokens <= 0 THEN Err("", "max_tokens must be positive", 0, 0, "")
    ELSE IF c.temperature < 0 \/ c.temperature > 10
         THEN Err("", "temperature must be between 0 and 1", 0, 0, "")
    ELSE IF c.backoff \notin ValidBackoffs
         THEN Err("", "invalid backoff strategy", 0, 0, c.backoff)
    ELSE Nil

Validate(c) ==
    IF c.provider \notin Supported THEN Err("", "invalid AI provider", 0, 0, c.provider)
    ELSE IF c.maxTokens <= 0 THEN Err("", "max_tokens must be positive", 0, 0, "")
    ELSE IF c.temperature < 0 \/ c.temperature > 10
         THEN Err("", "temperature must be between 0 and 1", 0, 0, "")
    ELSE IF c.backoff \notin ValidBackoffs
         THEN Err("", "invalid backoff strategy", 0, 0, c.backoff)
    ELSE IF c.polishEnabled /\ GetPolishProvider(c) \notin Supported
         THEN Err("", "invalid polish provider", 0, 0, GetPolishProvider(c))
    ELSE Nil

\* var config Config: the value yaml.Unmarshal fills in
ZeroConfig ==
    [ provider |-> "", model |-> "", apiKeyEnv |-> "", maxTokens |-> 0, temperature |-> 0,
      attempts |-> 0, backoff |-> "", initialDelay |-> 0,
      polishEnabled |-> FALSE, polishModel |-> "", polishProvider |-> "",
      polishAPIKeyEnv |-> "", polishPrompt |-> <<>>,
      polishMaxTokens |-> 0, polishTemperature |-> 0 ]

getDefaultModel(provider) ==
    CASE provider = "anthropic"  -> "claude-haiku-4-5"
      [] provider = "openai"     -> "gpt-4o-mini"
      [] provider = "cerebras"   -> "llama-3.3-70b"
      [] provider = "groq"       -> "llama-3.3-70b-versatile"
      [] provider = "openrouter" -> "openai/gpt-4o-mini"
      [] provider = "ollama"     -> "llama3.2"
      [] OTHER                   -> ""

\* applyDefaults: the fields of the model; the retry policy is replaced as a
\* whole, and only when attempts is 0
applyDefaults(c) ==
    LET provider == IF c.provider = "" THEN Default.provider ELSE c.provider
    IN [c EXCEPT !.provider = provider,
                 !.maxTokens = IF @ = 0 THEN Default.maxTokens ELSE @,
                 !.temperature = IF @ = 0 THEN Default.temperature ELSE @,
                 !.attempts = IF c.attempts = 0 THEN Default.attempts ELSE @,
                 !.backoff = IF c.attempts = 0 THEN Default.backoff ELSE @,
                 !.initialDelay = IF c.attempts = 0 THEN Default.initialDelay ELSE @,
                 !.apiKeyEnv = IF @ = "" THEN GetDefaultAPIKeyEnv(provider) ELSE @,
                 !.model = IF @ = "" THEN getDefaultModel(provider) ELSE @]

\* the environment variables the program can read under configuration c
Readable(c) == {c.apiKeyEnv, GetPolishAPIKeyEnv(c)} \ {""}

(***************************************************************************)
(* Text.                                                                   *)
(***************************************************************************)
\* unicode.IsSpace over the characters of the model
IsSpace(ch) == ch \in {" ", "\n"}

RECURSIVE TrimLeft(_)
TrimLeft(s) ==
    IF s # <<>> /\ IsSpace(Head(s)) THEN TrimLeft(Tail(s)) ELSE s

RECURSIVE TrimRight(_)
TrimRight(s) ==
    IF s # <<>> /\ IsSpace(s[Len(s)]) THEN TrimRight(SubSeq(s, 1, Len(s) - 1)) ELSE s

\* strings.TrimSpace
TrimSpace(s) == TrimRight(TrimLeft(s))

\* strings.Split(s, "\n"): cur is the line being read
RECURSIVE SplitLines(_, _)
SplitLines(s, cur) ==
    IF s = <<>> THEN <<cur>>
    ELSE IF Head(s) = "\n" THEN <<cur>> \o SplitLines(Tail(s), <<>>)
    ELSE SplitLines(Tail(s), Append(cur, Head(s)))

\* strings.Join(lines, "\n")
RECURSIVE JoinLines(_)
JoinLines(lines) ==
    IF lines = <<>> THEN <<>>
    ELSE IF Len(lines) = 1 THEN lines[1]
    ELSE lines[1] \o <<"\n">> \o JoinLines(Tail(lines))

\* strings.Contains(s, sub)
Contains(s, sub) ==
    \E i \in 0..(Len(s) - Len(sub)) : SubSeq(s, i + 1, i + Len(sub)) = sub

RECURSIVE Concat(_)
Concat(ss) == IF ss = <<>> THEN <<>> ELSE Head(ss) \o Concat(Tail(ss))

(***************************************************************************)
(* fmt.Sprintf(format, args...) with string arguments.  A format is a      *)
(* sequence of literal characters and of verbs.                            *)
(***************************************************************************)
Verbs == {"%s", "%v", "%q", "%x", "%d", "%%"}

\* strconv.Quote
RECURSIVE Escape(_)
Escape(s) ==
    IF s = <<>> THEN <<>>
    ELSE (CASE Head(s) = "\n" -> <<"\\", "n">>
            [] Head(s) = "\"" -> <<"\\", "\"">>
            [] OTHER          -> <<Head(s)>>) \o Escape(Tail(s))

Quote(s) == <<"\"">> \o Escape(s) \o <<"\"">>

\* %x of a string: two hexadecimal digits per byte
RECURSIVE Hex(_)
Hex(s) ==
    IF s = <<>> THEN <<>>
    ELSE (CASE Head(s) = "\n" -> <<"0", "a">>
            [] Head(s) = " "  -> <<"2", "0">>
            [] Head(s) = "\"" -> <<"2", "2">>
            [] Head(s) = "H"  -> <<"4", "8">>
            [] OTHER          -> <<"7", "8">>) \o Hex(Tail(s))

\* one operand printed under one verb
FormatArg(verb, s) ==
    CASE verb \in {"%s", "%v"} -> s
      [] verb = "%q"           -> Quote(s)
      [] verb = "%x"           -> Hex(s)
      [] OTHER                 -> <<"%!", "(string=">> \o s \o <<")">>

RECURSIVE SprintfFrom(_, _, _)
SprintfFrom(format, args, argNum) ==
    IF format = <<>>
    THEN IF argNum < Len(args)
         THEN <<"%!(EXTRA string=">> \o args[argNum + 1] \o <<")">>
         ELSE <<>>
    ELSE IF Head(format) = "%%" THEN <<"%">> \o SprintfFrom(Tail(format), args, argNum)
    ELSE IF Head(format) \in Verbs
         THEN IF argNum < Len(args)
              THEN FormatArg(Head(format), args[argNum + 1])
                       \o SprintfFrom(Tail(format), args, argNum + 1)
              ELSE <<"%!(MISSING)">> \o SprintfFrom(Tail(format), args, argNum)
    ELSE <<Head(format)>> \o SprintfFrom(Tail(format), args, argNum)

Sprintf(format, args) == SprintfFrom(format, args, 0)

(***************************************************************************)
(* internal/workflow/workflow.go: stripAIHeaders                           *)
(***************************************************************************)
\* strings.HasPrefix(trimmed, <one of the four header prefixes>)
IsHeader(trimmed) == trimmed # <<>> /\ Head(trimmed) = "H"

\* the for loop: i is the 0-based index of lines[1]
RECURSIVE StripLoop(_, _, _)
StripLoop(lines, i, skipNext) ==
    IF lines = <<>> THEN <<>>
    ELSE LET line == Head(lines)
             trimmed == TrimSpace(line)
         IN IF IsHeader(trimmed) THEN StripLoop(Tail(lines), i + 1, TRUE)
            ELSE IF skipNext /\ trimmed = <<>> THEN StripLoop(Tail(lines), i + 1, FALSE)
            ELSE IF i > 0 \/ trimmed # <<>>
                 THEN <<line>> \o StripLoop(Tail(lines), i + 1, FALSE)
                 ELSE StripLoop(Tail(lines), i + 1, FALSE)

stripAIHeaders(content) ==
    TrimSpace(JoinLines(StripLoop(SplitLines(content, <<>>), 0, FALSE)))

(***************************************************************************)
(* Provider adapters.  A Provider holds its name, its API key and its      *)
(* config.  An HTTP round trip ends in one of:                             *)
(*   [kind |-> "neterr"]           the request could not be sent           *)
(*   [kind |-> "status", envelope] a non-200 status; the body is the       *)
(*                                 vendor's error envelope with a message  *)
(*                                 ("message"), without one ("empty"), or  *)
(*                                 not the envelope ("unparseable")        *)
(*   [kind |-> "badjson"]          200 with a body that does not parse     *)
(*   [kind |-> "ok", texts]        200; texts are the generated texts the  *)
(*                                 body carries (choices / text blocks /   *)
(*                                 the completion field when non-empty)    *)
(***************************************************************************)
Provider(name, apiKey, c) == [name |-> name, apiKey |-> apiKey, cfg |-> c]

NoAdapter == Provider("", <<>>, Default)

Built(p, err) == [p |-> p, err |-> err]

Failure(kind, cause) == Built(NoAdapter, Err("", kind, 0, 0, cause))

\* if apiKey == "" { return nil, error } ; return &XProvider{...}
NewKeyed_NoCheck(name, apiKey, c) == Built(Provider(name, apiKey, c), Nil)

NewKeyed(name, apiKey, c) ==
    IF apiKey = <<>> THEN Failure("API key is required", name)
    ELSE Built(Provider(name, apiKey, c), Nil)

NewAnthropicProvider(apiKey, c) == NewKeyed("anthropic", apiKey, c)

NewOpenAIProvider(apiKey, c) == NewKeyed("openai", apiKey, c)

NewCerebrasProvider(apiKey, c) == NewKeyed("cerebras", apiKey, c)

NewOpenRouterProvider(apiKey, c) == NewKeyed("openrouter", apiKey, c)

NewGroqProvider(apiKey, c) == NewKeyed("groq", apiKey, c)

NewOllamaProvider(c) == Built(Provider("ollama", <<>>, c), Nil)

\* ValidateConfig of the Anthropic, OpenAI, Cerebras and OpenRouter adapters
KeyedValidateConfig(p) ==
    IF p.apiKey = <<>> THEN Err("", "API key is not set", 0, 0, p.name)
    ELSE IF p.cfg.model = "" THEN Err("", "model is not specified", 0, 0, p.name)
    ELSE Nil

OllamaValidateConfig(p) ==
    IF p.cfg.model = "" THEN Err("", "model is not specified", 0, 0, p.name)
    ELSE Nil

ValidateConfig_Skip(p) == Nil

\* ValidateConfig of the Groq adapter
GroqValidateConfig(p) ==
    IF p.apiKey = <<>> THEN Err("", "API key is not set", 0, 0, p.name)
    ELSE IF p.cfg.model = "" THEN Err("", "model is not specified", 0, 0, p.name)
    ELSE Nil

\* p.ValidateConfig() through the Provider interface
ValidateConfig(p) ==
    CASE p.name = "ollama" -> OllamaValidateConfig(p)
      [] p.name = "groq"   -> GroqValidateConfig(p)
      [] OTHER             -> KeyedValidateConfig(p)

\* NewRequest: the same in every adapter
NewRequest(p, prompt) ==
    [prompt |-> prompt, model |-> p.cfg.model, maxTokens |-> p.cfg.maxTokens,
     temperature |-> p.cfg.temperature]

Once(r, err) == [resp |-> r, err |-> err]

OnceErr(kind, at) == Once(NoResp, Err("", "generateOnce", 0, at, kind))

Response(name, content) == [content |-> content, provider |-> name, model |-> "m"]

\* the part of generateOnce every adapter shares: send, read
Transport(h, at) ==
    IF h.kind = "neterr" THEN OnceErr("failed to send request", at) ELSE Once(NoResp, Nil)

\* OpenAI, Anthropic: non-200
StatusUnchecked(h, at) ==
    IF h.envelope = "unparseable" THEN OnceErr("API error (status): body", at)
    ELSE IF h.envelope = "message" THEN OnceErr("API error: vendor message", at)
    ELSE OnceErr("API error: ", at)

\* Cerebras, OpenRouter: non-200
StatusChecked(h, at) ==
    IF h.envelope = "unparseable" THEN OnceErr("API error (status): body", at)
    ELSE IF h.envelope = "empty" THEN OnceErr("API error (status): body", at)
    ELSE OnceErr("API error: vendor message", at)

\* if len(apiResp.Choices) == 0 { error } ; content := Choices[0].Message.Content
FirstChoice(name, h, at) ==
    IF h.kind = "badjson" THEN OnceErr("failed to parse response", at)
    ELSE IF Len(h.texts) = 0 THEN OnceErr("no choices in response", at)
    ELSE Once(Response(name, h.texts[1]), Nil)

OpenAIGenerateOnce(h, at) ==
    IF Transport(h, at).err # Nil THEN Transport(h, at)
    ELSE IF h.kind = "status" THEN StatusUnchecked(h, at)
    ELSE FirstChoice("openai", h, at)

CerebrasGenerateOnce(h, at) ==
    IF Transport(h, at).err # Nil THEN Transport(h, at)
    ELSE IF h.kind = "status" THEN StatusChecked(h, at)
    ELSE FirstChoice("cerebras", h, at)

OpenRouterGenerateOnce(h, at) ==
    IF Transport(h, at).err # Nil THEN Transport(h, at)
    ELSE IF h.kind = "status" THEN StatusChecked(h, at)
    ELSE FirstChoice("openrouter", h, at)

GroqGenerateOnce(h, at) ==
    IF Transport(h, at).err # Nil THEN Transport(h, at)
    ELSE IF h.kind = "status" THEN StatusChecked(h, at)
    ELSE FirstChoice("groq", h, at)

\* for _, block := range apiResp.Content { content.WriteString(block.Text) }
AnthropicGenerateOnce(h, at) ==
    IF Transport(h, at).err # Nil THEN Transport(h, at)
    ELSE IF h.kind = "status" THEN StatusUnchecked(h, at)
    ELSE IF h.kind = "badjson" THEN OnceErr("failed to parse response", at)
    ELSE Once(Response("anthropic", Concat(h.texts)), Nil)

\* Content: apiResp.Response
OllamaGenerateOnce(h, at) ==
    IF Transport(h, at).err # Nil THEN Transport(h, at)
    ELSE IF h.kind = "status" THEN OnceErr("API error (status): body", at)
    ELSE IF h.kind = "badjson" THEN OnceErr("failed to parse response", at)
    ELSE Once(Response("ollama", IF h.texts = <<>> THEN <<>> ELSE h.texts[1]), Nil)

\* p.generateOnce through the Provider interface
generateOnce(p, h, at) ==
    CASE p.name = "anthropic"  -> AnthropicGenerateOnce(h, at)
      [] p.name = "openai"     -> OpenAIGenerateOnce(h, at)
      [] p.name = "cerebras"   -> CerebrasGenerateOnce(h, at)
      [] p.name = "groq"       -> GroqGenerateOnce(h, at)
      [] p.name = "openrouter" -> OpenRouterGenerateOnce(h, at)
      [] OTHER                 -> OllamaGenerateOnce(h, at)

(***************************************************************************)
(* internal/ai/provider.go: the discovery factory                          *)
(***************************************************************************)
NewProvider_DefaultLocal(c, e) ==
    LET k == GetAPIKey(c, e)
    IN IF k.err # Nil /\ c.provider # "ollama"
       THEN Failure("failed to get API key", k.err.cause)
       ELSE CASE c.provider = "anthropic" -> NewAnthropicProvider(k.key, c)
              [] c.provider = "openai"    -> NewOpenAIProvider(k.key, c)
              [] c.provider = "cerebras"  -> NewCerebrasProvider(k.key, c)
              [] c.provider = "groq"      -> NewGroqProvider(k.key, c)
              [] OTHER                    -> NewOllamaProvider(c)

NewProvider(c, e) ==
    LET k == GetAPIKey(c, e)
    IN IF k.err # Nil /\ c.provider # "ollama"
       THEN Failure("failed to get API key", k.err.cause)
       ELSE CASE c.provider = "anthropic" -> NewAnthropicProvider(k.key, c)
              [] c.provider = "openai"    -> NewOpenAIProvider(k.key, c)
              [] c.provider = "cerebras"  -> NewCerebrasProvider(k.key, c)
              [] c.provider = "groq"      -> NewGroqProvider(k.key, c)
              [] c.provider = "ollama"    -> NewOllamaProvider(c)
              [] OTHER -> Failure("unsupported AI provider", c.provider)

(***************************************************************************)
(* internal/workflow/polish.go: PolishChangelog up to the request          *)
(***************************************************************************)
\* "...100%% technical accuracy...Original changelog:\n%s\n\nOutput only..."
DefaultPolishPrompt == <<"t", "%%", "t", "\n", "%s", "\n", "\n", "t">>

\* polishCfg := &config.Config{AI: config.AIConfig{...}}
PolishCfg(c) ==
    [ provider |-> GetPolishProvider(c), model |-> GetPolishModel(c),
      apiKeyEnv |-> GetPolishAPIKeyEnv(c), maxTokens |-> c.polishMaxTokens,
      temperature |-> c.polishTemperature,
      attempts |-> c.attempts, backoff |-> c.backoff, initialDelay |-> c.initialDelay,
      polishEnabled |-> FALSE, polishModel |-> "", polishProvider |-> "",
      polishAPIKeyEnv |-> "", polishPrompt |-> <<>>,
      polishMaxTokens |-> 0, polishTemperature |-> 0 ]

\* the switch on polishProvider
NewPolishProvider(c, key) ==
    CASE GetPolishProvider(c) = "anthropic"  -> NewAnthropicProvider(key, PolishCfg(c))
      [] GetPolishProvider(c) = "openai"     -> NewOpenAIProvider(key, PolishCfg(c))
      [] GetPolishProvider(c) = "cerebras"   -> NewCerebrasProvider(key, PolishCfg(c))
      [] GetPolishProvider(c) = "groq"       -> NewGroqProvider(key, PolishCfg(c))
      [] GetPolishProvider(c) = "openrouter" -> NewOpenRouterProvider(key, PolishCfg(c))
      [] GetPolishProvider(c) = "ollama"     -> NewOllamaProvider(PolishCfg(c))
      [] OTHER -> Failure("unsupported polish provider", GetPolishProvider(c))

\* polishPrompt = fmt.Sprintf(<template>, draftChangelog)
PolishPrompt_NoOperand(c, draftChangelog) ==
    IF c.polishPrompt = <<>> THEN Sprintf(DefaultPolishPrompt, <<>>)
    ELSE Sprintf(c.polishPrompt, <<>>)

PolishPrompt(c, draftChangelog) ==
    IF c.polishPrompt = <<>> THEN Sprintf(DefaultPolishPrompt, <<draftChangelog>>)
    ELSE Sprintf(c.polishPrompt, <<draftChangelog>>)

\* req := &ai.Request{...}
PolishRequest(c, draftChangelog) ==
    [prompt |-> PolishPrompt(c, draftChangelog), model |-> GetPolishModel(c),
     maxTokens |-> c.polishMaxTokens, temperature |-> c.polishTemperature]

(***************************************************************************)
(* internal/ai/retry.go                                                    *)
(***************************************************************************)
\* the least and the greatest value of a signed word
MinInt == -(2 ^ (IntBits - 1))

MaxInt == 2 ^ (IntBits - 1) - 1

\* a result of signed arithmetic, wrapped into the word
WrapInt(x) == ((x - MinInt) % (2 ^ IntBits)) + MinInt

\* a * b on words
Mul(a, b) == WrapInt(a * b)

\* 1 << uint(n), n >= 0: the bit shifted past the sign bit is lost
RECURSIVE Shl(_)
Shl(n) == IF n <= 0 THEN 1 ELSE WrapInt(2 * Shl(n - 1))

calculateDelay(retry, att) ==
    CASE retry.backoff = "exponential" -> Mul(retry.initialDelay, Shl(att - 1))
      [] retry.backoff = "linear"      -> Mul(retry.initialDelay, att)
      [] retry.backoff = "constant"    -> retry.initialDelay
      [] OTHER                         -> Mul(retry.initialDelay, Shl(att - 1))

\* for attempt := 1; attempt <= cfg.AI.Retry.Attempts; attempt++
LoopCond_OffByOne(att, n) == att < n

LoopCond(att, n) == att <= n

\* if attempt == cfg.AI.Retry.Attempts { break }
IsLastAttempt(att, n) == att = n

\* lastErr = err : the error kept is the one of the invocation just made
KeepErr(old, new) == new

\* fmt.Errorf("failed after %d attempts: %w", cfg.AI.Retry.Attempts, lastErr)
Exhausted_NilWraps(n, e) ==
    IF e = Nil THEN Nil ELSE Err("", "failed after attempts", n, e.at, e.cause)

Exhausted(n, e) == Err("", "failed after attempts", n, e.at, e.cause)

\* fmt.Errorf("retry cancelled: %w", ctx.Err())
Cancelled == Err("", "retry cancelled", 0, 0, "context canceled")

\* select { case <-time.After(delay): ... case <-ctx.Done(): ... } when it
\* is entered: a case that is ready is taken at once, and a timer of no
\* duration may already have fired
SelectEntry(done, d) ==
    IF ~done THEN {"none"}
    ELSE IF d <= 0 THEN {"ctx", "timer"} ELSE {"ctx"}

\* case <-ctx.Done(): closing the channel wakes a goroutine blocked in the
\* select; one that another case has woken already is not woken again
CancelWakes_Sleep(p, w) == w

CancelWakes(p, w) == IF p = "select" /\ w = "none" THEN "ctx" ELSE w

Running == pc \notin {"returned", "done", "failed", "start", "main"}

\* RetryWithBackoff is called with cfg c: var lastErr error; attempt := 1
RetryEnter(c) ==
    /\ pc' = "loop"
    /\ rcfg' = c
    /\ attempt' = 1
    /\ lastErr' = Nil
    /\ calls' = 0
    /\ waits' = 0
    /\ woke' = "none"
    /\ delay' = 0
    /\ okAt' = 0
    /\ retries' = [retries EXCEPT ![stage] = @ + 1]

\* top of the for loop: run fn (which sends h HTTP requests), or leave the loop
RetryLoopWith(h) ==
    /\ pc = "loop"
    /\ IF LoopCond(attempt, rcfg.attempts)
       THEN /\ pc' = "inflight"
            /\ calls' = calls + 1
            /\ https' = [https EXCEPT ![stage] = @ + h]
            /\ UNCHANGED rerr
       ELSE /\ pc' = "retried"
            /\ rerr' = Exhausted(rcfg.attempts, lastErr)
            /\ UNCHANGED <<calls, https>>
    /\ UNCHANGED <<cfgVars, stageVars, attempt, lastErr, woke, delay, waits, okAt,
                   rcfg, gens, retries, ctxDone, resp, result, cancelAt, out>>

\* if err == nil { return nil }
IsSuccess_Ignored(err) == FALSE

IsSuccess(err) == err = Nil

\* fn returned e (and r when e is nil): lines 21-41 up to the select
FnReturns(e, r) ==
    /\ pc = "inflight"
    /\ okAt' = IF e = Nil /\ okAt = 0 THEN calls ELSE okAt
    /\ IF IsSuccess(e)
       THEN /\ pc' = "retried"
            /\ rerr' = Nil
            /\ resp' = r
            /\ UNCHANGED <<lastErr, woke, delay, waits>>
       ELSE /\ lastErr' = KeepErr(lastErr, e)
            /\ UNCHANGED resp
            /\ IF IsLastAttempt(attempt, rcfg.attempts)
               THEN /\ pc' = "retried"
                    /\ rerr' = Exhausted(rcfg.attempts, lastErr')
                    /\ UNCHANGED <<woke, delay, waits>>
               ELSE /\ pc' = "select"
                    /\ delay' = calculateDelay(rcfg, attempt)
                    /\ waits' = waits + 1
                    /\ woke' \in SelectEntry(ctxDone, delay')
                    /\ UNCHANGED rerr
    /\ UNCHANGED <<cfgVars, stageVars, attempt, calls, rcfg, countVars, ctxDone,
                   result, cancelAt, out>>

\* the timer of time.After(delay) fires while the goroutine is blocked
TimerFires ==
    /\ pc = "select"
    /\ woke = "none"
    /\ woke' = "timer"
    /\ UNCHANGED <<cfgVars, stageVars, attempt, lastErr, delay, calls, waits, okAt,
                   rcfg, countVars, ctxDone, pc, rerr, resp, result, cancelAt, out>>

\* the select returns with the case that woke it
SelectReturns ==
    /\ pc = "select"
    /\ woke # "none"
    /\ woke' = "none"
    /\ IF woke = "timer"
       THEN /\ pc' = "loop"
            /\ attempt' = attempt + 1
            /\ UNCHANGED rerr
       ELSE /\ pc' = "retried"
            /\ rerr' = Cancelled
            /\ UNCHANGED attempt
    /\ UNCHANGED <<cfgVars, stageVars, lastErr, delay, calls, waits, okAt, rcfg,
                   countVars, ctxDone, resp, result, cancelAt, out>>

NotCancelled == [pc |-> "", attempt |-> 0, woke |-> "", calls |-> 0]

\* the caller cancels the context, or its deadline passes
Cancel ==
    /\ Running
    /\ ~ctxDone
    /\ ctxDone' = TRUE
    /\ woke' = CancelWakes(pc, woke)
    /\ cancelAt' = [pc |-> pc, attempt |-> attempt, woke |-> woke, calls |-> calls]
    /\ UNCHANGED <<cfgVars, stageVars, attempt, lastErr, delay, calls, waits, okAt,
                   rcfg, countVars, pc, rerr, resp, result, out>>

NoResult == [text |-> <<>>, err |-> Nil]

Called(op, val, err) ==
    [op |-> op, val |-> val, err |-> err, key |-> KeyResult(<<>>, Nil)]

\* a call whose first step is the key lookup that returned k
CalledWithKey(op, val, err, k) == [Called(op, val, err) EXCEPT !.key = k]

NoOut == Called("", "", Nil)

(***************************************************************************)
(* RetryWithBackoff around an arbitrary fn.                                *)
(***************************************************************************)
BackoffKinds == {"exponential", "linear", "constant", "fibonacci"}

RetryConfigs ==
    { [Default EXCEPT !.attempts = n, !.backoff = b, !.initialDelay = d] :
        n \in (-1)..MaxAttempts, b \in BackoffKinds, d \in 0..MaxDelay }

\* the error of the invocation of fn in flight
FnErr == Err("", "fn", 0, calls, "fn failed")

RetryCall ==
    /\ pc = "start"
    /\ RetryEnter(cfg)
    /\ UNCHANGED <<cfgVars, stageVars, https, gens, ctxDone, rerr, resp, result,
                   cancelAt, out>>

RetryLoop == RetryLoopWith(0)

\* fn returns nil or an error
FnStep == \E ok \in BOOLEAN : FnReturns(IF ok THEN Nil ELSE FnErr, NoResp)

\* RetryWithBackoff returns to its caller
RetryReturn ==
    /\ pc = "retried"
    /\ pc' = "returned"
    /\ result' = [text |-> <<>>, err |-> rerr]
    /\ UNCHANGED <<cfgVars, stageVars, loopVars, countVars, ctxDone, rerr, resp,
                   cancelAt, out>>

InitRetry ==
    /\ cfg \in RetryConfigs
    /\ env = {}
    /\ commits = <<>>
    /\ opts = [useAI |-> FALSE, aiPromptOnly |-> FALSE, cfgNil |-> FALSE]
    /\ ctxDone \in BOOLEAN
    /\ pc = "start"
    /\ stage = "discovery"
    /\ adapter = NoAdapter
    /\ req = NoReq
    /\ attempt = 0
    /\ lastErr = Nil
    /\ woke = "none"
    /\ delay = 0
    /\ calls = 0
    /\ waits = 0
    /\ okAt = 0
    /\ rcfg = Default
    /\ rerr = Nil
    /\ resp = NoResp
    /\ https = Zero
    /\ gens = Zero
    /\ retries = Zero
    /\ draft = <<>>
    /\ result = NoResult
    /\ cancelAt = NotCancelled
    /\ out = NoOut

NextRetry ==
    \/ RetryCall
    \/ RetryLoop
    \/ FnStep
    \/ TimerFires
    \/ SelectReturns
    \/ Cancel
    \/ RetryReturn

SpecRetry == InitRetry /\ [][NextRetry]_vars

(***************************************************************************)
(* The two-stage workflow: the caller builds the discovery provider with   *)
(* the factory and calls workflow.GenerateReleaseNotes.                    *)
(***************************************************************************)
MaxWorkflowAttempts == 2

\* prompt.GenerateAIPrompt(...) and generator.GenerateReleaseNotes(...)
PromptText == <<"p">>

BasicNotes == <<"b">>

\* texts a vendor may generate
Contents == {<<>>, <<"x">>, <<"H", "\n", "\n", "x", "\n", "x">>}

Http(kind, envelope, texts) == [kind |-> kind, envelope |-> envelope, texts |-> texts]

HttpOutcomes ==
    {Http("neterr", "", <<>>), Http("badjson", "", <<>>), Http("ok", "", <<>>)}
        \cup {Http("status", v, <<>>) : v \in {"message", "empty", "unparseable"}}
        \cup {Http("ok", "", <<t>>) : t \in Contents}

\* custom polish_prompt templates; <<>> selects DefaultPolishPrompt
Templates == {<<>>, <<"t", "%s", "t">>, <<"t">>, <<"%q">>, <<"%%", "%v">>}

WorkflowConfigs ==
    { [Default EXCEPT !.provider = p, !.model = m, !.apiKeyEnv = k, !.attempts = n,
                      !.polishEnabled = FALSE] :
        p \in Identifiers, m \in {"", "m"}, k \in {"", "MY_KEY"},
        n \in 1..MaxWorkflowAttempts }
    \cup
    { [Default EXCEPT !.provider = p, !.model = "m", !.apiKeyEnv = k, !.attempts = n,
                      !.polishEnabled = TRUE, !.polishProvider = pp,
                      !.polishAPIKeyEnv = pk, !.polishPrompt = tpl] :
        p \in Identifiers, k \in {"", "MY_KEY"}, n \in 1..MaxWorkflowAttempts,
        pp \in Identifiers \cup {""}, pk \in {"", "POLISH_KEY"}, tpl \in Templates }
    \cup
    { [Default EXCEPT !.provider = p, !.model = "m", !.apiKeyEnv = "MY_KEY",
                      !.attempts = 1, !.polishEnabled = TRUE,
                      !.polishMaxTokens = mt, !.polishTemperature = t] :
        p \in {"openai", "ollama"}, mt \in {0, 4000}, t \in {0, 3} }

Options == [useAI : BOOLEAN, aiPromptOnly : BOOLEAN, cfgNil : BOOLEAN]

Returned(text, err) == [text |-> text, err |-> err]

\* main: provider, err = ai.NewProvider(cfg), or no provider is built
Construct ==
    /\ pc = "main"
    /\ \E build \in BOOLEAN :
         IF build
         THEN /\ out' = CalledWithKey("NewProvider", NewProvider(cfg, env).p.name,
                                      NewProvider(cfg, env).err, GetAPIKey(cfg, env))
              /\ adapter' = NewProvider(cfg, env).p
              /\ IF NewProvider(cfg, env).err # Nil
                 THEN /\ pc' = "failed"
                      /\ result' = Returned(<<>>, NewProvider(cfg, env).err)
                 ELSE /\ pc' = "call"
                      /\ UNCHANGED result
         ELSE /\ pc' = "call"
              /\ UNCHANGED <<out, adapter, result>>
    /\ UNCHANGED <<cfgVars, stage, req, draft, loopVars, countVars, ctxDone, rerr,
                   resp, cancelAt>>

\* req := &ai.Request{Prompt: promptText, Model: "", MaxTokens: 0, Temperature: 0}
\* of the GenerateReleaseNotes(ctx, opts, provider) that main calls
LiteralRequest(prompt) ==
    [prompt |-> prompt, model |-> "", maxTokens |-> 0, temperature |-> 0]

\* GenerateReleaseNotes up to the call of provider.Generate (lines 85-128, 165-174);
\* the request is built by provider.NewRequest in workflow.go and as a literal
\* in the GenerateReleaseNotes of polish.go (lines 135-214)
GenerateReleaseNotes ==
    /\ pc = "call"
    /\ \E o \in Options, gitOk \in BOOLEAN :
         /\ opts' = o
         /\ IF ~gitOk
            THEN /\ pc' = "failed"
                 /\ result' = Returned(<<>>, Err("", "git", 0, 0, "no changes detected"))
                 /\ UNCHANGED <<stage, req>>
            ELSE IF o.aiPromptOnly
            THEN /\ pc' = "done"
                 /\ result' = Returned(PromptText, Nil)
                 /\ UNCHANGED <<stage, req>>
            ELSE IF o.useAI /\ adapter # NoAdapter
            THEN /\ pc' = "gen"
                 /\ stage' = "discovery"
                 /\ req' \in {NewRequest(adapter, PromptText), LiteralRequest(PromptText)}
                 /\ UNCHANGED result
            ELSE /\ pc' = "done"
                 /\ result' = Returned(BasicNotes, Nil)
                 /\ UNCHANGED <<stage, req>>
    /\ UNCHANGED <<cfg, env, commits, adapter, draft, loopVars, countVars, ctxDone, rerr,
                   resp, cancelAt, out>>

\* Generate of every adapter: ValidateConfig, then RetryWithBackoff
Generate ==
    /\ pc = "gen"
    /\ gens' = [gens EXCEPT ![stage] = @ + 1]
    /\ IF ValidateConfig(adapter) # Nil
       THEN /\ pc' = "retried"
            /\ rerr' = Err("", "invalid configuration", 0, 0, ValidateConfig(adapter).kind)
            /\ calls' = 0
            /\ waits' = 0
            /\ UNCHANGED <<attempt, lastErr, woke, delay, okAt, rcfg, retries>>
       ELSE /\ RetryEnter(adapter.cfg)
            /\ UNCHANGED rerr
    /\ UNCHANGED <<cfgVars, stageVars, https, ctxDone, resp, result, cancelAt, out>>

\* the closure passed to RetryWithBackoff is invoked: generateOnce sends its request
GenerateOnceSend == RetryLoopWith(1)

\* the round trip ends and generateOnce returns
GenerateOnceReturn ==
    \E h \in HttpOutcomes :
        /\ ctxDone => h.kind = "neterr"
        /\ FnReturns(generateOnce(adapter, h, calls).err, generateOnce(adapter, h, calls).resp)

\* return stripAIHeaders(response.Content), nil
CleanDiscovery_Raw(r) == r.content

CleanDiscovery(r) == stripAIHeaders(r.content)

\* if cfg != nil && cfg.AI.Polish.Enabled
PolishWanted_Always(o, c) == TRUE

PolishWanted(o, c) == ~o.cfgNil /\ c.polishEnabled

\* provider.Generate returns to generateAIContent, which returns to
\* GenerateReleaseNotes (workflow.go 175-188, 128-153)
DiscoveryReturns ==
    /\ pc = "retried"
    /\ stage = "discovery"
    /\ IF rerr # Nil
       THEN /\ pc' = "failed"
            /\ result' = Returned(<<>>, Wrap("failed to generate AI response", rerr))
            /\ UNCHANGED draft
       ELSE IF PolishWanted(opts, cfg)
       THEN /\ pc' = "polish"
            /\ draft' = CleanDiscovery(resp)
            /\ UNCHANGED result
       ELSE /\ pc' = "done"
            /\ result' = Returned(CleanDiscovery(resp), Nil)
            /\ UNCHANGED draft
    /\ UNCHANGED <<cfgVars, stage, adapter, req, loopVars, countVars, ctxDone, rerr,
                   resp, cancelAt, out>>

\* PolishChangelog: key, polishCfg, provider switch
PolishFactory(c, e) ==
    IF GetPolishAPIKey(c, e).err # Nil
    THEN Failure("failed to get polish API key", GetPolishAPIKey(c, e).err.cause)
    ELSE IF NewPolishProvider(c, GetPolishAPIKey(c, e).key).err = Nil
    THEN NewPolishProvider(c, GetPolishAPIKey(c, e).key)
    ELSE IF NewPolishProvider(c, GetPolishAPIKey(c, e).key).err.kind = "unsupported polish provider"
    THEN NewPolishProvider(c, GetPolishAPIKey(c, e).key)
    ELSE Failure("failed to create polish AI provider",
                 NewPolishProvider(c, GetPolishAPIKey(c, e).key).err.kind)

\* PolishChangelog up to the call of polishAI.Generate (lines 31-99)
PolishChangelog ==
    /\ pc = "polish"
    /\ out' = CalledWithKey("PolishFactory", PolishFactory(cfg, env).p.name,
                             PolishFactory(cfg, env).err, GetPolishAPIKey(cfg, env))
    /\ IF PolishFactory(cfg, env).err # Nil
       THEN /\ pc' = "failed"
            /\ result' = Returned(<<>>, Wrap("failed to polish changelog", PolishFactory(cfg, env).err))
            /\ UNCHANGED <<stage, adapter, req>>
       ELSE /\ pc' = "gen"
            /\ stage' = "polish"
            /\ adapter' = PolishFactory(cfg, env).p
            /\ req' = PolishRequest(cfg, draft)
            /\ UNCHANGED result
    /\ UNCHANGED <<cfgVars, draft, loopVars, countVars, ctxDone, rerr, resp, cancelAt>>

\* what GenerateReleaseNotes returns once polishAI.Generate has returned;
\* PolishChangelog and GenerateReleaseNotes both wrap the error with the
\* prefix "failed to polish changelog", kept once in the error record
PolishOutcome_Fallback(d, r, e) ==
    IF e # Nil THEN Returned(d, Nil) ELSE Returned(r.content, Nil)

PolishOutcome(d, r, e) ==
    IF e # Nil THEN Returned(<<>>, Wrap("failed to polish changelog", e))
    ELSE Returned(r.content, Nil)

\* polishAI.Generate returns (polish.go 100-105, workflow.go 141-150)
PolishReturns ==
    /\ pc = "retried"
    /\ stage = "polish"
    /\ result' = PolishOutcome(draft, resp, rerr)
    /\ pc' = IF result'.err # Nil THEN "failed" ELSE "done"
    /\ UNCHANGED <<cfgVars, stageVars, loopVars, countVars, ctxDone, rerr, resp,
                   cancelAt, out>>

Init ==
    /\ cfg \in WorkflowConfigs
    /\ env \in SUBSET Readable(cfg)
    /\ commits = <<>>
    /\ opts = [useAI |-> FALSE, aiPromptOnly |-> FALSE, cfgNil |-> FALSE]
    /\ ctxDone = FALSE
    /\ pc = "main"
    /\ stage = "discovery"
    /\ adapter = NoAdapter
    /\ req = NoReq
    /\ attempt = 0
    /\ lastErr = Nil
    /\ woke = "none"
    /\ delay = 0
    /\ calls = 0
    /\ waits = 0
    /\ okAt = 0
    /\ rcfg = Default
    /\ rerr = Nil
    /\ resp = NoResp
    /\ https = Zero
    /\ gens = Zero
    /\ retries = Zero
    /\ draft = <<>>
    /\ result = NoResult
    /\ cancelAt = NotCancelled
    /\ out = NoOut

Next ==
    \/ Construct
    \/ GenerateReleaseNotes
    \/ Generate
    \/ GenerateOnceSend
    \/ GenerateOnceReturn
    \/ TimerFires
    \/ SelectReturns
    \/ Cancel
    \/ DiscoveryReturns
    \/ PolishChangelog
    \/ PolishReturns

Spec == Init /\ [][Next]_vars

(***************************************************************************)
(* The configuration resolver on its own: any Config a caller can hold     *)
(* (parsed from YAML or built directly), and the environment.              *)
(***************************************************************************)
ResolverConfigs ==
    { [Default EXCEPT !.provider = p, !.model = m, !.apiKeyEnv = k,
                      !.polishEnabled = TRUE, !.polishProvider = pp,
                      !.polishModel = pm, !.polishAPIKeyEnv = pk] :
        p \in Identifiers, m \in {"", "m"}, k \in {"", "MY_KEY", "ANTHROPIC_API_KEY", "OPENAI_API_KEY"},
        pp \in Identifiers \cup {""}, pm \in {"", "pm"},
        pk \in {"", "POLISH_KEY"} }

Resolve(op, val, err) ==
    /\ pc = "config"
    /\ out' = Called(op, val, err)
    /\ UNCHANGED <<cfgVars, stageVars, loopVars, countVars, ctxDone, pc, rerr,
                   resp, result, cancelAt>>

CallGetPolishProvider == Resolve("GetPolishProvider", GetPolishProvider(cfg), Nil)

CallGetPolishModel == Resolve("GetPolishModel", GetPolishModel(cfg), Nil)

CallGetPolishAPIKeyEnv == Resolve("GetPolishAPIKeyEnv", GetPolishAPIKeyEnv(cfg), Nil)

CallGetAPIKey ==
    Resolve("GetAPIKey", GetAPIKey(cfg, env).key, GetAPIKey(cfg, env).err)

CallGetPolishAPIKey ==
    Resolve("GetPolishAPIKey", GetPolishAPIKey(cfg, env).key, GetPolishAPIKey(cfg, env).err)

InitConfig ==
    /\ cfg \in ResolverConfigs
    /\ env \in SUBSET Readable(cfg)
    /\ commits = <<>>
    /\ opts = [useAI |-> FALSE, aiPromptOnly |-> FALSE, cfgNil |-> FALSE]
    /\ ctxDone = FALSE
    /\ pc = "config"
    /\ stage = "discovery"
    /\ adapter = NoAdapter
    /\ req = NoReq
    /\ attempt = 0
    /\ lastErr = Nil
    /\ woke = "none"
    /\ delay = 0
    /\ calls = 0
    /\ waits = 0
    /\ okAt = 0
    /\ rcfg = Default
    /\ rerr = Nil
    /\ resp = NoResp
    /\ https = Zero
    /\ gens = Zero
    /\ retries = Zero
    /\ draft = <<>>
    /\ result = NoResult
    /\ cancelAt = NotCancelled
    /\ out = NoOut

NextConfig ==
    \/ CallGetPolishProvider
    \/ CallGetPolishModel
    \/ CallGetPolishAPIKeyEnv
    \/ CallGetAPIKey
    \/ CallGetPolishAPIKey

SpecConfig == InitConfig /\ [][NextConfig]_vars

(***************************************************************************)
(* Config.Validate on its own: any Config a caller can hold.               *)
(***************************************************************************)
ValidateConfigs ==
    { [Default EXCEPT !.provider = p, !.maxTokens = mt, !.temperature = t,
                      !.backoff = b, !.polishEnabled = pe, !.polishProvider = pp] :
        p \in Identifiers, mt \in {-1, 0, 1, 8000}, t \in {-1, 0, 3, 10, 11},
        b \in BackoffKinds, pe \in BOOLEAN, pp \in Identifiers \cup {""} }

CallValidate == Resolve("Validate", "", Validate(cfg))

InitValidate ==
    /\ cfg \in ValidateConfigs
    /\ env = {}
    /\ commits = <<>>
    /\ opts = [useAI |-> FALSE, aiPromptOnly |-> FALSE, cfgNil |-> FALSE]
    /\ ctxDone = FALSE
    /\ pc = "config"
    /\ stage = "discovery"
    /\ adapter = NoAdapter
    /\ req = NoReq
    /\ attempt = 0
    /\ lastErr = Nil
    /\ woke = "none"
    /\ delay = 0
    /\ calls = 0
    /\ waits = 0
    /\ okAt = 0
    /\ rcfg = Default
    /\ rerr = Nil
    /\ resp = NoResp
    /\ https = Zero
    /\ gens = Zero
    /\ retries = Zero
    /\ draft = <<>>
    /\ result = NoResult
    /\ cancelAt = NotCancelled
    /\ out = NoOut

NextValidate == CallValidate

SpecValidate == InitValidate /\ [][NextValidate]_vars

(***************************************************************************)
(* Loading: config.LoadOrDefault followed by Config.Validate, as main does. *)
(* cfg starts as what yaml.Unmarshal made of the file.                     *)
(***************************************************************************)
ParsedConfigs ==
    { [ZeroConfig EXCEPT !.provider = p, !.maxTokens = mt, !.temperature = t,
                         !.attempts = n, !.backoff = b, !.initialDelay = d,
                         !.polishEnabled = pe] :
        p \in {"", "openai", "openrouter", "unknown"}, mt \in {-1, 0, 100},
        t \in {0, 5, 11}, n \in {-1, 0, 1, 5}, b \in {"", "linear", "fibonacci"},
        d \in {0, 1}, pe \in BOOLEAN }

\* cfg := config.LoadOrDefault(path); err := cfg.Validate()
CallLoad ==
    /\ pc = "load"
    /\ pc' = "loaded"
    /\ \E found \in BOOLEAN :
         /\ cfg' = IF found THEN applyDefaults(cfg) ELSE Default
         /\ out' = Called(IF found THEN "Load" ELSE "LoadOrDefault", cfg, Validate(cfg'))
    /\ UNCHANGED <<env, opts, commits, stageVars, loopVars, countVars, ctxDone, rerr,
                   resp, result, cancelAt>>

InitLoad ==
    /\ cfg \in ParsedConfigs
    /\ env = {}
    /\ commits = <<>>
    /\ opts = [useAI |-> FALSE, aiPromptOnly |-> FALSE, cfgNil |-> FALSE]
    /\ ctxDone = FALSE
    /\ pc = "load"
    /\ stage = "discovery"
    /\ adapter = NoAdapter
    /\ req = NoReq
    /\ attempt = 0
    /\ lastErr = Nil
    /\ woke = "none"
    /\ delay = 0
    /\ calls = 0
    /\ waits = 0
    /\ okAt = 0
    /\ rcfg = Default
    /\ rerr = Nil
    /\ resp = NoResp
    /\ https = Zero
    /\ gens = Zero
    /\ retries = Zero
    /\ draft = <<>>
    /\ result = NoResult
    /\ cancelAt = NotCancelled
    /\ out = NoOut

NextLoad == CallLoad

SpecLoad == InitLoad /\ [][NextLoad]_vars

(***************************************************************************)
(* stripAIHeaders on its own: every text of at most MaxTextLen characters  *)
(* over a header prefix, another character, the space and the newline.     *)
(***************************************************************************)
MaxTextLen == 4

ResponseTexts == UNION { [1..n -> {"H", "x", " ", "\n"}] : n \in 0..MaxTextLen }

\* return stripAIHeaders(response.Content), nil
CallStripAIHeaders ==
    /\ pc = "strip"
    /\ out' = Called("stripAIHeaders", stripAIHeaders(resp.content), Nil)
    /\ UNCHANGED <<cfgVars, stageVars, loopVars, countVars, ctxDone, pc, rerr,
                   resp, result, cancelAt>>

InitStrip ==
    /\ cfg = Default
    /\ env = {}
    /\ commits = <<>>
    /\ opts = [useAI |-> FALSE, aiPromptOnly |-> FALSE, cfgNil |-> FALSE]
    /\ ctxDone = FALSE
    /\ pc = "strip"
    /\ stage = "discovery"
    /\ adapter = NoAdapter
    /\ req = NoReq
    /\ attempt = 0
    /\ lastErr = Nil
    /\ woke = "none"
    /\ delay = 0
    /\ calls = 0
    /\ waits = 0
    /\ okAt = 0
    /\ rcfg = Default
    /\ rerr = Nil
    /\ \E t \in ResponseTexts : resp = [NoResp EXCEPT !.content = t]
    /\ https = Zero
    /\ gens = Zero
    /\ retries = Zero
    /\ draft = <<>>
    /\ result = NoResult
    /\ cancelAt = NotCancelled
    /\ out = NoOut

NextStrip == CallStripAIHeaders

SpecStrip == InitStrip /\ [][NextStrip]_vars

(***************************************************************************)
(* calculateDelay on its own: every backoff kind, every non-negative       *)
(* initial delay of the word, attempt numbers up to and past the width of  *)
(* the shift.                                                              *)
(***************************************************************************)
DelayConfigs ==
    { [Default EXCEPT !.backoff = b, !.initialDelay = d] :
        b \in BackoffKinds, d \in 0..MaxInt }

AttemptNumbers == 1..(IntBits + 2)

\* delay := calculateDelay(cfg.AI.Retry, a)
CallCalculateDelay ==
    /\ pc = "delay"
    /\ \E a \in AttemptNumbers :
         /\ attempt' = a
         /\ delay' = calculateDelay(cfg, a)
         /\ out' = Called("calculateDelay", "", Nil)
    /\ UNCHANGED <<cfgVars, stageVars, lastErr, woke, calls, waits, okAt, rcfg,
                   countVars, ctxDone, pc, rerr, resp, result, cancelAt>>

InitDelay ==
    /\ cfg \in DelayConfigs
    /\ env = {}
    /\ commits = <<>>
    /\ opts = [useAI |-> FALSE, aiPromptOnly |-> FALSE, cfgNil |-> FALSE]
    /\ ctxDone = FALSE
    /\ pc = "delay"
    /\ stage = "discovery"
    /\ adapter = NoAdapter
    /\ req = NoReq
    /\ attempt = 0
    /\ lastErr = Nil
    /\ woke = "none"
    /\ delay = 0
    /\ calls = 0
    /\ waits = 0
    /\ okAt = 0
    /\ rcfg = Default
    /\ rerr = Nil
    /\ resp = NoResp
    /\ https = Zero
    /\ gens = Zero
    /\ retries = Zero
    /\ draft = <<>>
    /\ result = NoResult
    /\ cancelAt = NotCancelled
    /\ out = NoOut

NextDelay == CallCalculateDelay

SpecDelay == InitDelay /\ [][NextDelay]_vars

(***************************************************************************)
(* internal/analyzer: CategorizeCommits.  A commit message is a sequence   *)
(* of bytes; "<C4>", "<B0>" are the two bytes of U+0130, the one letter of *)
(* the messages below whose lower case has another length.                 *)
(***************************************************************************)
MaxCommits == 2

\* unicode.ToLower of a one-byte letter
LowerChar(ch) ==
    CASE ch = "A" -> "a" [] ch = "B" -> "b" [] ch = "C" -> "c" [] ch = "E" -> "e"
      [] ch = "F" -> "f" [] ch = "G" -> "g" [] ch = "H" -> "h" [] ch = "I" -> "i"
      [] ch = "K" -> "k" [] ch = "N" -> "n" [] ch = "R" -> "r" [] ch = "T" -> "t"
      [] OTHER -> ch

\* strings.ToLower: rune by rune
RECURSIVE ToLower(_)
ToLower(s) ==
    IF s = <<>> THEN <<>>
    ELSE IF Len(s) >= 2 /\ s[1] = "<C4>" /\ s[2] = "<B0>"
         THEN <<"i">> \o ToLower(SubSeq(s, 3, Len(s)))
    ELSE <<LowerChar(Head(s))>> \o ToLower(Tail(s))

\* strings.HasPrefix
HasPrefix(s, prefix) == Len(s) >= Len(prefix) /\ SubSeq(s, 1, Len(prefix)) = prefix

\* the words the loop looks for
Words ==
    [ breaking |-> <<"b", "r", "e", "a", "k", "i", "n", "g">>,
      breakingChange |-> <<"B", "R", "E", "A", "K", "I", "N", "G", " ", "C", "H", "A", "N", "G", "E">>,
      feat |-> <<"f", "e", "a", "t", ":">>,
      feature |-> <<"f", "e", "a", "t", "u", "r", "e", ":">>,
      fix |-> <<"f", "i", "x", ":">>,
      docs |-> <<"d", "o", "c", "s", ":">>,
      chore |-> <<"c", "h", "o", "r", "e", ":">>,
      refactor |-> <<"r", "e", "f", "a", "c", "t", "o", "r", ":">>,
      test |-> <<"t", "e", "s", "t", ":">> ]

\* extractMessage(commit, prefixes...)
RECURSIVE extractMessage(_, _)
extractMessage(commit, prefixes) ==
    IF prefixes = <<>> THEN TrimSpace(commit)
    ELSE IF HasPrefix(ToLower(commit), Head(prefixes)) /\ Len(Head(prefixes)) < Len(commit)
         THEN TrimSpace(SubSeq(commit, Len(Head(prefixes)) + 1, Len(commit)))
    ELSE extractMessage(commit, Tail(prefixes))

NoCategories ==
    [Features |-> <<>>, Fixes |-> <<>>, Docs |-> <<>>, Chores |-> <<>>,
     Changes |-> <<>>, Breaking |-> <<>>]

\* the body of the for loop: one commit appended to its category
Categorize(cats, commit) ==
    LET lower == ToLower(commit)
    IN IF Contains(lower, Words.breaking) \/ Contains(commit, Words.breakingChange)
       THEN [cats EXCEPT !.Breaking = Append(@, commit)]
       ELSE IF HasPrefix(lower, Words.feat) \/ HasPrefix(lower, Words.feature)
       THEN [cats EXCEPT !.Features = Append(@, extractMessage(commit, <<Words.feat, Words.feature>>))]
       ELSE IF HasPrefix(lower, Words.fix)
       THEN [cats EXCEPT !.Fixes = Append(@, extractMessage(commit, <<Words.fix>>))]
       ELSE IF HasPrefix(lower, Words.docs)
       THEN [cats EXCEPT !.Docs = Append(@, extractMessage(commit, <<Words.docs>>))]
       ELSE IF HasPrefix(lower, Words.chore)
       THEN [cats EXCEPT !.Chores = Append(@, extractMessage(commit, <<Words.chore>>))]
       ELSE IF HasPrefix(lower, Words.refactor)
       THEN [cats EXCEPT !.Changes = Append(@, extractMessage(commit, <<Words.refactor>>))]
       ELSE IF HasPrefix(lower, Words.test)
       THEN [cats EXCEPT !.Chores = Append(@, extractMessage(commit, <<Words.test>>))]
       ELSE [cats EXCEPT !.Changes = Append(@, commit)]

RECURSIVE CategorizeFrom(_, _)
CategorizeFrom(cats, rest) ==
    IF rest = <<>> THEN cats
    ELSE CategorizeFrom(Categorize(cats, Head(rest)), Tail(rest))

CategorizeCommits(cs) == CategorizeFrom(NoCategories, cs)

\* CommitCategories.CountTotal
CountTotal(c) ==
    Len(c.Features) + Len(c.Fixes) + Len(c.Docs) + Len(c.Chores) + Len(c.Changes)
        + Len(c.Breaking)

\* commit messages git may hand over
CommitTexts ==
    { <<"f", "e", "a", "t", ":", " ", "x">>,
      <<"F", "E", "A", "T", ":", "x">>,
      <<"f", "e", "a", "t", "u", "r", "e", ":", " ", "y">>,
      <<"f", "i", "x", ":">>,
      <<"f", "i", "x", ":", " ", " ", "b", " ">>,
      <<"d", "o", "c", "s", ":", " ", "d">>,
      <<"c", "h", "o", "r", "e", ":", " ", "c">>,
      <<"r", "e", "f", "a", "c", "t", "o", "r", ":", " ", "r">>,
      <<"t", "e", "s", "t", ":", " ", "t">>,
      <<"x">>,
      <<" ", "f", "i", "x", ":", " ", "z">>,
      <<"f", "e", "a", "t", ":", " ", "B", "R", "E", "A", "K", "I", "N", "G", " ", "y">>,
      <<"b", "r", "e", "a", "k", "i", "n", "g">>,
      <<"f", "<C4>", "<B0>", "x", ":", " ", "m">> }

CommitLists == UNION { [1..n -> CommitTexts] : n \in 0..MaxCommits }

\* categories := analyzer.CategorizeCommits(gitData.commits)
CallCategorizeCommits ==
    /\ pc = "analyze"
    /\ out' = Called("CategorizeCommits", CategorizeCommits(commits), Nil)
    /\ UNCHANGED <<cfgVars, stageVars, loopVars, countVars, ctxDone, pc, rerr,
                   resp, result, cancelAt>>

InitCommits ==
    /\ cfg = Default
    /\ env = {}
    /\ commits \in CommitLists
    /\ opts = [useAI |-> FALSE, aiPromptOnly |-> FALSE, cfgNil |-> FALSE]
    /\ ctxDone = FALSE
    /\ pc = "analyze"
    /\ stage = "discovery"
    /\ adapter = NoAdapter
    /\ req = NoReq
    /\ attempt = 0
    /\ lastErr = Nil
    /\ woke = "none"
    /\ delay = 0
    /\ calls = 0
    /\ waits = 0
    /\ okAt = 0
    /\ rcfg = Default
    /\ rerr = Nil
    /\ resp = NoResp
    /\ https = Zero
    /\ gens = Zero
    /\ retries = Zero
    /\ draft = <<>>
    /\ result = NoResult
    /\ cancelAt = NotCancelled
    /\ out = NoOut

NextCommits == CallCategorizeCommits

SpecCommits == InitCommits /\ [][NextCommits]_vars

(***************************************************************************)
(* C1: for attempts = N >= 1 and every backoff kind, when fn fails on      *)
(* every call and the context is never cancelled, RetryWithBackoff has     *)
(* invoked fn exactly N times and waited exactly N-1 times when it         *)
(* returns, and the error it returns names N and wraps the error of the    *)
(* N-th invocation.                                                        *)
(***************************************************************************)
C1_ExhaustedAfterN ==
    (pc = "returned" /\ cfg.attempts >= 1 /\ ~ctxDone /\ okAt = 0) =>
        /\ calls = cfg.attempts
        /\ waits = cfg.attempts - 1
        /\ result.err.kind = "failed after attempts"
        /\ result.err.n = cfg.attempts
        /\ result.err.at = cfg.attempts
        /\ result.err.cause = "fn failed"

C1_Witness ==
    /\ pc = "returned"
    /\ cfg.attempts = MaxAttempts
    /\ ~ctxDone
    /\ okAt = 0
    /\ calls = MaxAttempts
    /\ waits = MaxAttempts - 1

(***************************************************************************)
(* C2: when the context is cancelled while RetryWithBackoff is blocked in  *)
(* the wait after attempt k (the timer has not fired), fn is never invoked *)
(* a (k+1)-th time and RetryWithBackoff returns the 'retry cancelled'      *)
(* error, not the error of the last invocation.                            *)
(***************************************************************************)
CancelledInWait == cancelAt.pc = "select" /\ cancelAt.woke = "none"

C2_CancelDuringWait ==
    CancelledInWait =>
        /\ calls = cancelAt.attempt
        /\ pc \in {"select", "retried", "returned"}
        /\ pc = "select" => woke = "ctx"
        /\ pc = "retried" => rerr = Cancelled
        /\ pc = "returned" => result.err = Cancelled

C2_Witness ==
    /\ CancelledInWait
    /\ cancelAt.attempt = 2
    /\ pc = "returned"
    /\ result.err.kind = "retry cancelled"

(***************************************************************************)
(* C8: when polish_provider and polish_model are both empty,               *)
(* GetPolishProvider returns the discovery provider and GetPolishModel the *)
(* discovery model; a polish field that is set wins over the discovery     *)
(* field.                                                                  *)
(***************************************************************************)
C8_PolishInheritsProviderModel ==
    /\ (out.op = "GetPolishProvider" /\ cfg.polishProvider = "" /\ cfg.polishModel = "")
          => out.val = cfg.provider
    /\ (out.op = "GetPolishModel" /\ cfg.polishProvider = "" /\ cfg.polishModel = "")
          => out.val = cfg.model
    /\ (out.op = "GetPolishProvider" /\ cfg.polishProvider # "")
          => out.val = cfg.polishProvider
    /\ (out.op = "GetPolishModel" /\ cfg.polishModel # "")
          => out.val = cfg.polishModel

C8_Witness ==
    /\ out.op = "GetPolishModel"
    /\ cfg.polishProvider = ""
    /\ cfg.polishModel = ""
    /\ cfg.provider = "openrouter"
    /\ cfg.model = "m"
    /\ out.val = "m"

(***************************************************************************)
(* C9: when polish_provider is set to a provider other than the discovery  *)
(* provider and polish_api_key_env is empty, GetPolishAPIKeyEnv returns    *)
(* the static default variable name of the polish provider; whatever the   *)
(* discovery api_key_env is, it is not what is returned (unless it is that *)
(* very default name).                                                     *)
(***************************************************************************)
DistinctPolishProvider ==
    /\ cfg.polishProvider # ""
    /\ cfg.polishProvider # cfg.provider
    /\ cfg.polishAPIKeyEnv = ""

C9_PolishKeyEnvIsProviderDefault ==
    (out.op = "GetPolishAPIKeyEnv" /\ DistinctPolishProvider) =>
        /\ out.val = GetDefaultAPIKeyEnv(cfg.polishProvider)
        /\ cfg.apiKeyEnv # GetDefaultAPIKeyEnv(cfg.polishProvider)
              => out.val # cfg.apiKeyEnv

C9_Witness ==
    /\ out.op = "GetPolishAPIKeyEnv"
    /\ DistinctPolishProvider
    /\ cfg.provider = "anthropic"
    /\ cfg.apiKeyEnv = "MY_KEY"
    /\ cfg.polishProvider = "openrouter"
    /\ out.val = "OPENROUTER_API_KEY"

(***************************************************************************)
(* C3: when ValidateConfig fails (a required API key is empty, or the      *)
(* configured model is empty), Generate returns an error without entering  *)
(* RetryWithBackoff: no attempt, no wait and no HTTP request is made for   *)
(* that stage.                                                             *)
(***************************************************************************)
ConfigInvalid(p) ==
    \/ p.name # "ollama" /\ p.apiKey = <<>>
    \/ p.cfg.model = ""

C3_InvalidConfigNeverRetried ==
    (adapter # NoAdapter /\ ConfigInvalid(adapter)) =>
        /\ retries[stage] = 0
        /\ https[stage] = 0
        /\ calls = 0
        /\ waits = 0
        /\ pc \notin {"loop", "inflight", "select"}
        /\ gens[stage] > 0 =>
              /\ pc \in {"retried", "failed"}
              /\ rerr.kind = "invalid configuration"
              /\ pc = "failed" => result.err.kind = "invalid configuration"

C3_Witness ==
    /\ pc = "failed"
    /\ adapter.name = "openai"
    /\ ConfigInvalid(adapter)
    /\ gens["discovery"] = 1
    /\ result.err.kind = "invalid configuration"

(***************************************************************************)
(* C4: when discovery has succeeded and polish is enabled, and the polish  *)
(* stage fails (its key or provider cannot be resolved, or its Generate    *)
(* returns an error), GenerateReleaseNotes returns an error and an empty   *)
(* text: the discovery output is not returned.                             *)
(***************************************************************************)
PolishFailed ==
    /\ out.op = "PolishFactory"
    /\ \/ out.err # Nil
       \/ stage = "polish" /\ rerr # Nil /\ pc \in {"retried", "done", "failed"}

C4_PolishFailureFailsWorkflow ==
    PolishFailed =>
        /\ pc # "done"
        /\ pc = "failed" =>
              /\ result.err # Nil
              /\ result.err.wrap = "failed to polish changelog"
              /\ result.text = <<>>

C4_Witness ==
    /\ PolishFailed
    /\ pc = "failed"
    /\ draft # <<>>
    /\ rerr.kind = "failed after attempts"
    /\ rerr.n = MaxWorkflowAttempts
    /\ result.text = <<>>

(***************************************************************************)
(* C5: an HTTP 200 response that carries no generated text makes the       *)
(* attempt fail, so Generate never returns a successful Response whose     *)
(* Content is empty.                                                       *)
(***************************************************************************)
C5_EmptyCompletionIsError ==
    (pc = "retried" /\ rerr = Nil) => resp.content # <<>>

(***************************************************************************)
(* C6: with AI generation on and polish disabled, the text returned by     *)
(* GenerateReleaseNotes is stripAIHeaders(D), D being the content of the   *)
(* discovery response, and nothing else is done to it.                     *)
(***************************************************************************)
DiscoveryOnly ==
    /\ opts.useAI
    /\ ~opts.aiPromptOnly
    /\ adapter # NoAdapter
    /\ opts.cfgNil \/ ~cfg.polishEnabled

C6_UnpolishedIsStripped ==
    (pc = "done" /\ DiscoveryOnly) =>
        /\ result.err = Nil
        /\ result.text = stripAIHeaders(resp.content)
        /\ gens["polish"] = 0

C6_Witness ==
    /\ pc = "done"
    /\ DiscoveryOnly
    /\ resp.content = <<"H", "\n", "\n", "x", "\n", "x">>
    /\ result.text = <<"x", "\n", "x">>

(***************************************************************************)
(* C7 as claimed: with polish enabled, the prompt of the polish Request    *)
(* contains the draft handed to PolishChangelog verbatim, for the default  *)
(* template and for every custom polish_prompt.                            *)
(***************************************************************************)
PolishRequested == stage = "polish" /\ pc \in {"gen", "loop", "inflight", "select", "retried", "done", "failed"}

C7_Original ==
    PolishRequested => Contains(req.prompt, draft)

(***************************************************************************)
(* C7 amended: the prompt of the polish Request contains the draft         *)
(* verbatim for the default template and for every custom polish_prompt    *)
(* that has no formatting verb or whose first formatting verb is a plain   *)
(* %s or %v.                                                               *)
(***************************************************************************)
RECURSIVE FirstVerb(_)
FirstVerb(format) ==
    IF format = <<>> THEN ""
    ELSE IF Head(format) \in Verbs \ {"%%"} THEN Head(format)
    ELSE FirstVerb(Tail(format))

Verbatim(format) == FirstVerb(format) \in {"", "%s", "%v"}

C7_PromptEmbedsDraft ==
    (PolishRequested /\ Verbatim(cfg.polishPrompt)) => Contains(req.prompt, draft)

C7_Witness ==
    /\ PolishRequested
    /\ pc = "inflight"
    /\ cfg.polishPrompt = <<"t">>
    /\ draft = <<"x", "\n", "x">>
    /\ Contains(req.prompt, draft)

(***************************************************************************)
(* C10 as claimed: for a provider identifier outside the supported six,    *)
(* factory construction fails with the unsupported-provider error,         *)
(* whatever the state of the API-key variable.                             *)
(***************************************************************************)
C10_Original ==
    /\ (out.op = "NewProvider" /\ cfg.provider \notin Supported)
          => out.err.kind = "unsupported AI provider"
    /\ (out.op = "PolishFactory" /\ GetPolishProvider(cfg) \notin Supported)
          => out.err.kind = "unsupported polish provider"

(***************************************************************************)
(* C10 amended: for a provider identifier outside the supported six,       *)
(* factory construction fails and returns no adapter before any HTTP call  *)
(* or retry attempt of that stage; the error is the unsupported-provider   *)
(* error when the stage's API-key lookup succeeds, and the API-key lookup  *)
(* error when that lookup fails.                                           *)
(***************************************************************************)
C10_UnknownProviderFails ==
    /\ (out.op = "NewProvider" /\ cfg.provider \notin Supported) =>
          /\ pc = "failed"
          /\ out.val = ""
          /\ adapter = NoAdapter
          /\ result.err = out.err
          /\ https = Zero /\ retries = Zero /\ gens = Zero
          /\ out.err.kind = IF GetAPIKey(cfg, env).err = Nil
                            THEN "unsupported AI provider"
                            ELSE "failed to get API key"
    /\ (out.op = "PolishFactory" /\ GetPolishProvider(cfg) \notin Supported) =>
          /\ pc = "failed"
          /\ out.val = ""
          /\ stage = "discovery"
          /\ result.err.kind = out.err.kind
          /\ https["polish"] = 0 /\ retries["polish"] = 0 /\ gens["polish"] = 0
          /\ out.err.kind = IF GetPolishAPIKey(cfg, env).err = Nil
                            THEN "unsupported polish provider"
                            ELSE "failed to get polish API key"

C10_Witness ==
    /\ out.op = "PolishFactory"
    /\ GetPolishProvider(cfg) = "unknown"
    /\ cfg.polishAPIKeyEnv = "POLISH_KEY"
    /\ "POLISH_KEY" \in env
    /\ pc = "failed"
    /\ out.err.kind = "unsupported polish provider"


(***************************************************************************)
(* C11: for every initial delay >= 0 and attempt numbers a <= b,           *)
(* calculateDelay(a) <= calculateDelay(b) for the exponential and linear   *)
(* kinds and calculateDelay(a) = calculateDelay(b) for the constant kind,  *)
(* in the machine arithmetic the delay is computed in.                     *)
(***************************************************************************)
C11_DelayMonotone ==
    out.op = "calculateDelay" =>
        \A b \in AttemptNumbers :
            b >= attempt =>
                /\ cfg.backoff \in {"exponential", "linear"}
                      => delay <= calculateDelay(cfg, b)
                /\ cfg.backoff = "constant" => delay = calculateDelay(cfg, b)

(***************************************************************************)
(* C14: the delay computed for attempt n is initialDelay * 2^(n-1) for the *)
(* exponential kind, initialDelay * n for the linear kind and initialDelay *)
(* for the constant kind.                                                  *)
(***************************************************************************)
C14_DelayFormula ==
    out.op = "calculateDelay" =>
        /\ cfg.backoff = "exponential" => delay = cfg.initialDelay * (2 ^ (attempt - 1))
        /\ cfg.backoff = "linear"      => delay = cfg.initialDelay * attempt
        /\ cfg.backoff = "constant"    => delay = cfg.initialDelay


(***************************************************************************)
(* C12: when fn first returns nil on its k-th invocation and the context   *)
(* is not cancelled, RetryWithBackoff returns nil right after it: fn was   *)
(* invoked k times, k-1 waits happened, and no invocation or wait follows. *)
(***************************************************************************)
C12_SuccessAtK ==
    (okAt > 0 /\ ~ctxDone) =>
        /\ pc \in {"retried", "returned"}
        /\ rerr = Nil
        /\ calls = okAt
        /\ waits = okAt - 1
        /\ pc = "returned" => result.err = Nil

C12_Witness ==
    /\ pc = "returned"
    /\ ~ctxDone
    /\ okAt = MaxAttempts
    /\ calls = MaxAttempts
    /\ waits = MaxAttempts - 1
    /\ result.err = Nil


(***************************************************************************)
(* C13: whenever the context is cancelled while RetryWithBackoff is        *)
(* running, an attempt in flight or a wait in progress, the error it       *)
(* returns is 'retry cancelled' and never 'failed after N attempts'.       *)
(***************************************************************************)
C13_CancelGivesCancelled ==
    (pc \in {"retried", "returned"} /\ cancelAt # NotCancelled /\ rerr # Nil) =>
        rerr.kind = "retry cancelled"


(***************************************************************************)
(* C15: when the resolved polish provider equals the discovery provider,   *)
(* GetPolishAPIKey returns what GetAPIKey returns, the same key or the     *)
(* same error, and the variable named by polish_api_key_env plays no part, *)
(* set or not.                                                             *)
(***************************************************************************)
C15_SameProviderReusesKey ==
    (out.op = "GetPolishAPIKey" /\ GetPolishProvider(cfg) = cfg.provider) =>
        /\ out.val = GetAPIKey(cfg, env).key
        /\ out.err = GetAPIKey(cfg, env).err
        /\ out.val \in {<<>>, <<cfg.apiKeyEnv>>}
        /\ out.err # Nil => out.err.cause = cfg.apiKeyEnv

C15_Witness ==
    /\ out.op = "GetPolishAPIKey"
    /\ cfg.provider = "openai"
    /\ cfg.polishProvider = "openai"
    /\ cfg.apiKeyEnv = "MY_KEY"
    /\ cfg.polishAPIKeyEnv = "POLISH_KEY"
    /\ env = {"MY_KEY"}
    /\ out.val = <<"MY_KEY">>
    /\ out.err = Nil


(***************************************************************************)
(* C16: the key lookup of a stage (GetAPIKey for discovery, GetPolishAPIKey *)
(* when the polish provider differs from the discovery provider) returns   *)
(* an empty key and no error when the resolved variable name is empty, an  *)
(* error naming the variable when the name is not empty and the variable   *)
(* holds no value, and the value of the variable otherwise; for the polish *)
(* stage the error is returned before a polish adapter exists and before   *)
(* any polish HTTP request.                                                *)
(***************************************************************************)
LookupAsSpecified(name, k) ==
    IF name = "" THEN k.key = <<>> /\ k.err = Nil
    ELSE IF name \notin env THEN k.key = <<>> /\ k.err # Nil /\ k.err.cause = name
    ELSE k.key = <<name>> /\ k.err = Nil

C16_KeyLookup ==
    /\ out.op = "NewProvider" => LookupAsSpecified(cfg.apiKeyEnv, out.key)
    /\ (out.op = "PolishFactory" /\ GetPolishProvider(cfg) # cfg.provider) =>
          /\ LookupAsSpecified(GetPolishAPIKeyEnv(cfg), out.key)
          /\ out.key.err # Nil =>
                /\ pc = "failed"
                /\ out.val = ""
                /\ stage = "discovery"
                /\ result.err.kind = "failed to get polish API key"
                /\ result.err.cause = GetPolishAPIKeyEnv(cfg)
                /\ https["polish"] = 0 /\ gens["polish"] = 0 /\ retries["polish"] = 0

C16_Witness ==
    /\ out.op = "PolishFactory"
    /\ cfg.provider = "openai"
    /\ cfg.polishProvider = "anthropic"
    /\ cfg.polishAPIKeyEnv = "POLISH_KEY"
    /\ "POLISH_KEY" \notin env
    /\ out.key.err.cause = "POLISH_KEY"
    /\ pc = "failed"
    /\ https["discovery"] > 0
    /\ https["polish"] = 0


(***************************************************************************)
(* C17 as claimed: an adapter of anthropic, openai, cerebras, groq or      *)
(* openrouter is never constructed with an empty key (construction fails   *)
(* and returns no adapter), and an ollama adapter is constructed whatever  *)
(* the outcome of its key lookup, a failed lookup included.                *)
(***************************************************************************)
FactoryRan == out.op \in {"NewProvider", "PolishFactory"}

StageProvider == IF out.op = "PolishFactory" THEN GetPolishProvider(cfg) ELSE cfg.provider

KeyedProviders == Supported \ {"ollama"}

KeyedNeedKey ==
    /\ (FactoryRan /\ StageProvider \in KeyedProviders /\ out.key.key = <<>>) =>
          /\ out.err # Nil
          /\ out.val = ""
          /\ gens[IF out.op = "PolishFactory" THEN "polish" ELSE "discovery"] = 0
    /\ (adapter # NoAdapter /\ adapter.apiKey = <<>>) => adapter.name = "ollama"

C17_Original ==
    /\ KeyedNeedKey
    /\ (FactoryRan /\ StageProvider = "ollama") => (out.err = Nil /\ out.val = "ollama")

(***************************************************************************)
(* C17 amended: an adapter of anthropic, openai, cerebras, groq or         *)
(* openrouter is never constructed with an empty key, and an ollama        *)
(* adapter is constructed with an empty key; the discovery factory         *)
(* NewProvider constructs it even when the key lookup fails, while in the  *)
(* polish stage a failed key lookup is fatal for ollama too.               *)
(***************************************************************************)
C17_OnlyOllamaKeyless ==
    /\ KeyedNeedKey
    /\ (out.op = "NewProvider" /\ cfg.provider = "ollama") =>
          (out.err = Nil /\ out.val = "ollama")
    /\ (out.op = "PolishFactory" /\ GetPolishProvider(cfg) = "ollama") =>
          IF out.key.err = Nil
          THEN out.err = Nil /\ out.val = "ollama"
          ELSE out.err.kind = "failed to get polish API key" /\ out.val = ""

C17_Witness ==
    /\ out.op = "NewProvider"
    /\ cfg.provider = "ollama"
    /\ out.key.err # Nil
    /\ out.val = "ollama"
    /\ adapter.name = "ollama"
    /\ adapter.apiKey = <<>>


(***************************************************************************)
(* C18: a run of the AI workflow follows Idle -> DiscoveryRunning ->       *)
(* DiscoverySucceeded -> (Done | PolishRunning -> (Done | Failed)), or     *)
(* DiscoveryFailed -> Failed.  The polish Generate is invoked at most      *)
(* once, and only after the discovery Generate has returned a response     *)
(* with polish enabled; a failed discovery ends the run with an error and  *)
(* no text, the polish stage neither resolved nor invoked; Done is entered *)
(* only from a successful discovery with polish off or from a successful   *)
(* polish; requests of the two stages never overlap.                       *)
(***************************************************************************)
DiscoverySucceeded == pc = "retried" /\ stage = "discovery" /\ rerr = Nil

DiscoveryFailed == pc = "retried" /\ stage = "discovery" /\ rerr # Nil

PolishSucceeded == pc = "retried" /\ stage = "polish" /\ rerr = Nil

PolishEnabled == cfg.polishEnabled /\ ~opts.cfgNil

StagesInOrder ==
    /\ gens["discovery"] <= 1
    /\ gens["polish"] <= 1
    /\ (stage = "polish" \/ out.op = "PolishFactory" \/ pc = "polish") =>
          /\ gens["discovery"] = 1
          /\ PolishEnabled
    /\ stage = "discovery" => (gens["polish"] = 0 /\ https["polish"] = 0)
    /\ (pc = "failed" /\ gens["discovery"] = 1 /\ out.op # "PolishFactory") =>
          /\ result.err # Nil
          /\ result.text = <<>>
          /\ gens["polish"] = 0

StageSteps ==
    /\ (pc' = "polish" /\ pc # "polish") => (DiscoverySucceeded /\ PolishEnabled)
    /\ gens'["polish"] > gens["polish"] => (stage = "polish" /\ pc = "gen")
    /\ https'["polish"] > https["polish"] => (stage = "polish" /\ pc = "loop")
    /\ https'["discovery"] > https["discovery"] => (stage = "discovery" /\ pc = "loop")
    /\ stage' # stage => (pc = "polish" /\ stage = "discovery" /\ stage' = "polish")
    /\ DiscoveryFailed =>
          /\ pc' \in {"retried", "failed"}
          /\ stage' = "discovery"
          /\ out'.op # "PolishFactory"
          /\ pc' = "failed" => (result'.err # Nil /\ result'.text = <<>>)
    /\ (pc' = "done" /\ pc # "done" /\ gens["discovery"] > 0) =>
          \/ DiscoverySucceeded /\ ~PolishEnabled
          \/ PolishSucceeded
    /\ (pc' = "failed" /\ pc = "retried" /\ stage = "polish") => rerr # Nil

C18_StateMachine == []StagesInOrder /\ [][StageSteps]_vars

C18_Witness ==
    /\ pc = "done"
    /\ stage = "polish"
    /\ gens["discovery"] = 1
    /\ gens["polish"] = 1
    /\ https["polish"] > 0
    /\ result.err = Nil


(***************************************************************************)
(* C19: Config.Validate returns an error exactly when the provider is not  *)
(* one of the six supported identifiers, or max_tokens <= 0, or the        *)
(* temperature is outside [0,1], or the backoff kind is not exponential,   *)
(* linear or constant, or polish is enabled and the effective polish       *)
(* provider is not supported; it returns nil for Default().                *)
(***************************************************************************)
SixProviders == {"anthropic", "openai", "cerebras", "groq", "openrouter", "ollama"}

EffectivePolishProvider ==
    IF cfg.polishProvider = "" THEN cfg.provider ELSE cfg.polishProvider

InvalidAsSpecified ==
    \/ cfg.provider \notin SixProviders
    \/ cfg.maxTokens <= 0
    \/ ~(0 <= cfg.temperature /\ cfg.temperature <= 10)
    \/ cfg.backoff \notin {"exponential", "linear", "constant"}
    \/ cfg.polishEnabled /\ EffectivePolishProvider \notin SixProviders

PrefixTable ==
    << <<Words.feat, "Features">>, <<Words.feature, "Features">>, <<Words.fix, "Fixes">>,
       <<Words.docs, "Docs">>, <<Words.chore, "Chores">>, <<Words.refactor, "Changes">>,
       <<Words.test, "Chores">> >>

\* the number of leading bytes of the commit that spell the prefix in some case
Spelled(commit, prefix) ==
    LET ks == {k \in 1..Len(commit) : ToLower(SubSeq(commit, 1, k)) = prefix}
    IN IF ks = {} THEN 0 ELSE CHOOSE k \in ks : \A j \in ks : k <= j

IsBreaking(commit) == Contains(ToLower(commit), Words.breaking)

Prefixed(commit) == {i \in 1..Len(PrefixTable) : Spelled(commit, PrefixTable[i][1]) > 0}

ExpectedCategory(commit) ==
    IF IsBreaking(commit) THEN "Breaking"
    ELSE IF Prefixed(commit) = {} THEN "Changes"
    ELSE PrefixTable[CHOOSE i \in Prefixed(commit) : TRUE][2]

ExpectedMessage(commit) ==
    IF IsBreaking(commit) \/ Prefixed(commit) = {} THEN commit
    ELSE LET i == CHOOSE j \in Prefixed(commit) : TRUE
         IN TrimSpace(SubSeq(commit, Spelled(commit, PrefixTable[i][1]) + 1, Len(commit)))

RECURSIVE ExpectedIn(_, _)
ExpectedIn(category, rest) ==
    IF rest = <<>> THEN <<>>
    ELSE (IF ExpectedCategory(Head(rest)) = category
          THEN <<ExpectedMessage(Head(rest))>> ELSE <<>>) \o ExpectedIn(category, Tail(rest))

C20_CategorizePartitions ==
    out.op = "CategorizeCommits" =>
        /\ CountTotal(out.val) = Len(commits)
        /\ \A category \in DOMAIN NoCategories :
              out.val[category] = ExpectedIn(category, commits)

(***************************************************************************)
(* C21: in every configuration that has been loaded (applyDefaults) and    *)
(* has passed Config.Validate, and in the polish-stage configuration       *)
(* derived from it, the retry policy's attempts is at least 1.             *)
(***************************************************************************)
C21_AttemptsPositive ==
    (out.op \in {"Load", "LoadOrDefault"} /\ out.err = Nil) =>
        /\ cfg.attempts >= 1
        /\ PolishCfg(cfg).attempts >= 1

(***************************************************************************)
(* C30: for every parsed configuration whose set fields are individually   *)
(* valid (a supported provider, a positive max_tokens, a temperature in    *)
(* [0,1], attempts > 0, a recognized backoff; any of them may be left      *)
(* unset), the configuration after applyDefaults has a recognized backoff  *)
(* kind and is accepted by Validate.                                       *)
(***************************************************************************)
SetFieldsValid(p) ==
    /\ p.provider \in Supported \cup {""}
    /\ p.maxTokens >= 0
    /\ 0 <= p.temperature /\ p.temperature <= 10
    /\ p.attempts >= 0
    /\ p.backoff \in ValidBackoffs \cup {""}
    /\ p.polishProvider \in Supported \cup {""}

C30_DefaultsCompleteConfig ==
    (out.op = "Load" /\ SetFieldsValid(out.val)) =>
        /\ cfg.backoff \in ValidBackoffs
        /\ out.err = Nil

C27_NilOnlyAfterSuccess ==
    /\ (pc \in {"retried", "returned"} /\ rerr = Nil) => (okAt > 0 /\ calls = okAt)
    /\ (pc = "returned" /\ result.err = Nil) => okAt > 0
    /\ (pc # "start" /\ cfg.attempts <= 0) =>
          /\ calls = 0
          /\ waits = 0
          /\ pc \in {"loop", "retried", "returned"}
          /\ pc = "retried" => rerr.kind = "failed after attempts"
          /\ pc = "returned" => (result.err # Nil /\ result.err.n = cfg.attempts)

C27_Witness ==
    /\ pc = "returned"
    /\ cfg.attempts = -1
    /\ calls = 0
    /\ waits = 0
    /\ result.err.kind = "failed after attempts"
    /\ result.err.cause = ""

(***************************************************************************)
(* C23: the polish Request and the polish ProviderConfig carry the         *)
(* discovery max tokens and temperature when polish_max_tokens or          *)
(* polish_temperature is unset (zero), and the polish value when it is     *)
(* set.                                                                    *)
(***************************************************************************)
EffectivePolishMaxTokens ==
    IF cfg.polishMaxTokens = 0 THEN cfg.maxTokens ELSE cfg.polishMaxTokens

EffectivePolishTemperature ==
    IF cfg.polishTemperature = 0 THEN cfg.temperature ELSE cfg.polishTemperature

C23_PolishLimitsFallBack ==
    PolishRequested =>
        /\ req.maxTokens = EffectivePolishMaxTokens
        /\ req.temperature = EffectivePolishTemperature
        /\ adapter.cfg.maxTokens = EffectivePolishMaxTokens
        /\ adapter.cfg.temperature = EffectivePolishTemperature

(***************************************************************************)
(* C24: the Request of the discovery stage carries the caller's prompt     *)
(* text unchanged and the model, max tokens and temperature of the         *)
(* discovery ProviderConfig; its model is not empty when the configured    *)
(* model is not empty.                                                     *)
(***************************************************************************)
C24_DiscoveryRequest ==
    (stage = "discovery" /\ req # NoReq) =>
        /\ req.prompt = PromptText
        /\ req.model = adapter.cfg.model
        /\ req.maxTokens = adapter.cfg.maxTokens
        /\ req.temperature = adapter.cfg.temperature
        /\ adapter.cfg.model # "" => req.model # ""

(***************************************************************************)
(* C26: an attempt that ends in a non-200 response fails with an error     *)
(* that carries the vendor's message or the raw status and body, never an  *)
(* empty vendor message without status and body.                           *)
(***************************************************************************)
C26_StatusErrorInformative ==
    (lastErr.kind = "generateOnce" /\
     lastErr.cause \notin {"failed to send request", "failed to parse response",
                           "no choices in response"}) =>
        lastErr.cause \in {"API error: vendor message", "API error (status): body"}

(***************************************************************************)
(* C28: every provider identifier Config.Validate accepts yields an        *)
(* adapter in the discovery factory and in the polish factory when its API *)
(* key is available.                                                       *)
(***************************************************************************)
KeyAvailable(provider) ==
    /\ out.key.err = Nil
    /\ provider = "ollama" \/ out.key.key # <<>>

C28_ValidatedProvidersConstruct ==
    /\ (out.op = "NewProvider" /\ Validate(cfg) = Nil /\ KeyAvailable(cfg.provider)) =>
          (out.err = Nil /\ out.val = cfg.provider)
    /\ (out.op = "PolishFactory" /\ Validate(cfg) = Nil
            /\ KeyAvailable(GetPolishProvider(cfg))) =>
          (out.err = Nil /\ out.val = GetPolishProvider(cfg))

(***************************************************************************)
(* C29: the API-key variable name recorded in the polish-stage             *)
(* configuration is the name of the variable the polish API key was read   *)
(* from.                                                                   *)
(***************************************************************************)
C29_PolishKeyEnvIsRead ==
    (out.op = "PolishFactory" /\ out.key.err = Nil /\ out.key.key # <<>>) =>
        /\ out.key.key = <<PolishCfg(cfg).apiKeyEnv>>
        /\ (out.err = Nil /\ stage = "polish") => out.key.key = <<adapter.cfg.apiKeyEnv>>

(***************************************************************************)
(* C25: stripAIHeaders removes only the framing at the start of the text,  *)
(* the leading header lines and blank lines; every line from the first     *)
(* line that is neither a header nor blank onward is kept unchanged and in *)
(* order (up to the final trim of the whole text), even if a later line    *)
(* matches a header pattern.                                               *)
(***************************************************************************)
ResponseLines == SplitLines(resp.content, <<>>)

IsFraming(line) == IsHeader(TrimSpace(line)) \/ TrimSpace(line) = <<>>

BodyLines ==
    LET ks == {k \in 1..Len(ResponseLines) : ~IsFraming(ResponseLines[k])}
    IN IF ks = {} THEN <<>>
       ELSE SubSeq(ResponseLines, CHOOSE k \in ks : \A j \in ks : k <= j,
                   Len(ResponseLines))

C25_OnlyLeadingFramingStripped ==
    out.op = "stripAIHeaders" => out.val = TrimSpace(JoinLines(BodyLines))

====
